---- MODULE Spec2Model ----
(***************************************************************************)
(* ve-shader: the batch driver (main), the multi-stage splitter (parse)    *)
(* and the compilation step (compile_shader) of src/main.rs.               *)
(*                                                                         *)
(* A file line is the sequence of its words, i.e. what line.split(' ')     *)
(* yields.  The text accumulated for a unit is a sequence of pieces: a     *)
(* piece is either the newline character or the text of one file line,     *)
(* which also remembers the index of the file line it was copied from.     *)
(* A backend diagnostic is a sequence of characters.                       *)
(***************************************************************************)
EXTENDS Integers, Sequences, FiniteSets

\* ---------------------------------------------------------------- bounds
\* lines of the file when the glob names one file
MaxLines == 4
\* paths a glob with a wildcard yields, and lines of each of their files
MaxFiles == 2
MaxBatchLines == 1
\* entries of a line map handed to compile_shader on its own, and the largest of them
MaxMapLen == 3
MaxIndex == 8

\* ----------------------------------------------------------- input lines
Sentinel == "//#"

TypeLine(token) == <<Sentinel, "TYPE", token>>

VersionLine(v) == <<Sentinel, "VERSION", v>>

StageTokens == {"VERTEX", "FRAGMENT", "GEOMETRY"}

VersionTokens == {"450", "330"}

CodeLine == <<"x;">>

BlankLine == <<"">>

CommentLine == <<"//", "c">>

DirectiveLines ==
    {TypeLine(t) : t \in StageTokens \cup {"COMPUTE"}}
        \cup {VersionLine(v) : v \in VersionTokens}
        \cup {<<Sentinel, "NAME", "n">>}

PlainLines == {CodeLine, BlankLine, CommentLine}

FileLines == DirectiveLines \cup PlainLines

\* line.contains("//#"): the sentinel holds no space, so it lies in one word
ContainsSentinel(line) == \E i \in 1..Len(line) : line[i] = Sentinel

\* instruction.contains("TYPE"), instruction.contains("VERSION"): the words of
\* FileLines hold a keyword only as the whole word
ContainsWord(word, pat) == word = pat

\* line.is_empty()
IsEmptyLine(line) == line = <<"">>

\* line.starts_with("//")
StartsWithSlashes(line) == line[1] \in {"//", Sentinel}

\* Option<T>
None == <<>>

Some(x) == <<x>>

IsSome(o) == Len(o) = 1

Unwrap(o) == o[1]

\* split.get(i), 0-based
Get(split, i) == IF i + 1 <= Len(split) THEN Some(split[i + 1]) ELSE None

\* ------------------------------------------------------------------ text
NL == [nl |-> TRUE, text |-> <<>>, idx |-> -1]

\* the text of a file line as a string; the empty line is the empty string
LineText(line, idx) ==
    IF IsEmptyLine(line) THEN <<>> ELSE <<[nl |-> FALSE, text |-> line, idx |-> idx]>>

\* format!("{}\n{}", a, b)
JoinNL(a, b) == a \o <<NL>> \o b

\* format!("#version {}\n{}", version, curr_shader)
WithVersion(version, curr_shader) ==
    <<[nl |-> FALSE, text |-> <<"#version", version>>, idx |-> -1], NL>> \o curr_shader

\* number of '\n' characters of a text
Newlines(s) == Cardinality({p \in 1..Len(s) : s[p].nl})

\* number of lines of a text
NumLines(s) == Newlines(s) + 1

\* the pieces on line n (1-based) of a text
PiecesOnLine(s, n) ==
    {p \in 1..Len(s) :
        /\ ~s[p].nl
        /\ Cardinality({q \in 1..(p - 1) : s[q].nl}) = n - 1}

\* ------------------------------------------------------------ shader kind
parse_shader_kind(identifier) ==
    CASE identifier = "VERTEX" -> Some("Vertex")
      [] identifier = "FRAGMENT" -> Some("Fragment")
      [] identifier = "GEOMETRY" -> Some("Geometry")
      [] OTHER -> None

\* mutant: the Geometry extension misspelt
get_shader_kind_extension_Geom(kind) ==
    CASE kind = "Vertex" -> Some("vert")
      [] kind = "Fragment" -> Some("frag")
      [] kind = "Geometry" -> Some("geom")
      [] OTHER -> None

get_shader_kind_extension(kind) ==
    CASE kind = "Vertex" -> Some("vert")
      [] kind = "Fragment" -> Some("frag")
      [] kind = "Geometry" -> Some("geo")
      [] OTHER -> None

\* ----------------------------------------------------------- diagnostics
Digits == <<"0", "1", "2", "3", "4", "5", "6", "7", "8", "9">>

IsDigit(c) == \E d \in 1..Len(Digits) : Digits[d] = c

DigitValue(c) == (CHOOSE d \in 1..Len(Digits) : Digits[d] = c) - 1

\* usize to decimal text, as format!("{}", n) writes it
RECURSIVE Dec(_)
Dec(n) == IF n < Len(Digits) THEN <<Digits[n + 1]>>
          ELSE Dec(n \div Len(Digits)) \o <<Digits[(n % Len(Digits)) + 1]>>

\* first_capture.parse::<usize>(): Some(value), or None for the empty text
RECURSIVE DecValue(_)
DecValue(ds) == IF Len(ds) = 0 THEN 0
                ELSE DecValue(SubSeq(ds, 1, Len(ds) - 1)) * Len(Digits)
                         + DigitValue(ds[Len(ds)])

ParseUsize(ds) == IF Len(ds) = 0 THEN None ELSE Some(DecValue(ds))

\* format!(":{}:", n)
Cite(n) == <<":">> \o Dec(n) \o <<":">>

\* REG = ":([0-9]*):" matches at position i up to position j
RegMatch(err, i, j) ==
    /\ i < j
    /\ j <= Len(err)
    /\ err[i] = ":"
    /\ err[j] = ":"
    /\ \A k \in (i + 1)..(j - 1) : IsDigit(err[k])

\* REG.captures(&err).get(1): the digits of the leftmost match, or None
RegCapture(err) ==
    LET starts == {i \in 1..Len(err) : \E j \in 1..Len(err) : RegMatch(err, i, j)}
    IN  IF starts = {} THEN None
        ELSE LET i == CHOOSE a \in starts : \A b \in starts : a <= b
                 j == CHOOSE b \in 1..Len(err) : RegMatch(err, i, b)
             IN  Some(SubSeq(err, i + 1, j - 1))

IsPrefix(p, s) == Len(p) <= Len(s) /\ SubSeq(s, 1, Len(p)) = p

\* str::replace(s, from, to): every non-overlapping occurrence, left to right
RECURSIVE Replace(_, _, _)
Replace(s, from, to) ==
    IF Len(s) = 0 THEN <<>>
    ELSE IF IsPrefix(from, s)
         THEN to \o Replace(SubSeq(s, Len(from) + 1, Len(s)), from, to)
         ELSE <<s[1]>> \o Replace(Tail(s), from, to)

\* what the backend may answer for a source text: a binary, or a diagnostic
Diag1(n) == <<"f">> \o Cite(n) \o <<"e">>

Diag2(n, m) == Diag1(n) \o Cite(m)

DiagNoRef == <<"f", "e">>

\* a diagnostic cites a line of the source text; some cite a second place
Diagnostics(source) ==
    {Diag1(n) : n \in 1..NumLines(source)} \cup {Diag2(1, 1), Diag2(1, 2), DiagNoRef}

BackendOk == [ok |-> TRUE, err |-> <<>>]

BackendErr(e) == [ok |-> FALSE, err |-> e]

BackendAnswers(source) == {BackendOk} \cup {BackendErr(e) : e \in Diagnostics(source)}

\* -------------------------------------------------------- compile_shader
\* the value parse returns to main (tag "none": parse has not returned)
Result(tag, msg) == [tag |-> tag, msg |-> msg]

NoResult == Result("none", <<>>)

OkResult == Result("Ok", <<>>)

Panic == [panic |-> TRUE, msg |-> <<>>]

\* mutant: the closure looks up line_mapping.get(old_line), one entry too far
ErrorTranslation_OffByOne(e, line_mapping) ==
    LET captures == RegCapture(e)
    IN  IF ~IsSome(captures) THEN Panic
        ELSE LET old_line == ParseUsize(Unwrap(captures))
             IN  IF ~IsSome(old_line) THEN Panic
                 ELSE IF ~(Unwrap(old_line) < Len(line_mapping)) THEN Panic
                 ELSE [panic |-> FALSE,
                       msg |-> Replace(e, Cite(Unwrap(old_line)),
                                       Cite(line_mapping[Unwrap(old_line) + 1]))]

\* the map_err closure: the diagnostic with its line reference translated
ErrorTranslation(e, line_mapping) ==
    LET captures == RegCapture(e)
    IN  IF ~IsSome(captures) THEN Panic
        ELSE LET old_line == ParseUsize(Unwrap(captures))
             IN  IF ~IsSome(old_line) THEN Panic
                 ELSE IF Unwrap(old_line) - 1 < 0 THEN Panic
                 ELSE IF ~(Unwrap(old_line) - 1 < Len(line_mapping)) THEN Panic
                 ELSE [panic |-> FALSE,
                       msg |-> Replace(e, Cite(Unwrap(old_line)),
                                       Cite(line_mapping[(Unwrap(old_line) - 1) + 1]))]

\* the text handed to the backend
BackendSource(curr_shader, version) ==
    IF IsSome(version) THEN WithVersion(Unwrap(version), curr_shader) ELSE curr_shader

\* "{stem}-{extension}.spv"
ArtifactName(path, kind) ==
    <<path.stem, "-", Unwrap(get_shader_kind_extension(kind)), ".spv">>

\* compile_shader: what it returns and what it leaves in the output directory,
\* for an answer of the backend
compile_shader(curr_shader, path, kind, line_mapping, dir, version, answer) ==
    IF ~answer.ok
    THEN LET t == ErrorTranslation(answer.err, line_mapping)
         IN  [panic |-> t.panic, ret |-> Result("Compilation", t.msg), dir |-> dir]
    ELSE [panic |-> FALSE, ret |-> OkResult,
          dir |-> dir \cup {ArtifactName(path, kind)}]

\* ------------------------------------------------------------------ state
VARIABLES
    glob,               \* args.glob, the pattern
    ignore_extension,   \* args.ignore_extension
    status,             \* "running", or how the process ended
    pc,                 \* "main": at the head of main's loop; "parse": in parse's loop
    fileNo,             \* paths the glob has yielded so far
    path,               \* the path of the current loop iteration
    lines,              \* the lines of the current file read so far
    curr_shader, shader_type, line_mapping, version,   \* parse's locals
    calls,              \* the calls of compile_shader made for the current file
    result,             \* what parse returned for the current file
    log,                \* the warnings and errors main has logged
    output_dir          \* the names of the files in the output directory

vars == <<glob, ignore_extension, status, pc, fileNo, path, lines, curr_shader,
          shader_type, line_mapping, version, calls, result, log, output_dir>>

args == <<glob, ignore_extension>>

parseLocals == <<curr_shader, shader_type, line_mapping, version>>

Path(stem, ext) == [stem |-> stem, ext |-> ext]

NoPath == Path("", None)

\* the files a pattern can match
DiskPaths ==
    {Path("a", Some("glsl")), Path("b", Some("GLSL")), Path("a", Some("frag")),
     Path("c", None)}

LiteralGlob == "a.glsl"

WildcardGlob == "*"

Matches(p, pattern) == pattern = WildcardGlob \/ p = Path("a", Some("glsl"))

\* how many paths the glob yields at most, and how long their files are
GlobBound == IF glob = LiteralGlob THEN 1 ELSE MaxFiles

LineBound == IF glob = LiteralGlob THEN MaxLines ELSE MaxBatchLines

\* extension.to_ascii_lowercase()
ToAsciiLowercase(e) == IF e = "GLSL" THEN "glsl" ELSE e

Init ==
    /\ \/ glob = LiteralGlob /\ ignore_extension = FALSE
       \/ glob = WildcardGlob /\ ignore_extension \in BOOLEAN
    /\ status = "running"
    /\ pc = "main"
    /\ fileNo = 0
    /\ path = NoPath
    /\ lines = <<>>
    /\ curr_shader = <<>>
    /\ shader_type = None
    /\ line_mapping = <<>>
    /\ version = None
    /\ calls = <<>>
    /\ result = NoResult
    /\ log = <<>>
    /\ output_dir = {}

\* ------------------------------------------------------------------- main
\* the glob yields its next path: a new loop iteration of main begins
Yield(p) ==
    /\ status = "running"
    /\ pc = "main"
    /\ fileNo < GlobBound
    /\ Matches(p, glob)
    /\ fileNo' = fileNo + 1
    /\ path' = p
    /\ lines' = <<>>
    /\ calls' = <<>>
    /\ curr_shader' = <<>>
    /\ shader_type' = None
    /\ line_mapping' = <<>>
    /\ version' = None
    /\ UNCHANGED args

\* the extension check of main
HasExtension(p) == IsSome(p.ext)

Rejected(p) == ToAsciiLowercase(Unwrap(p.ext)) # "glsl" /\ ~ignore_extension

\* main returns from the head of its loop: its locals are gone
MainReturns(how) ==
    /\ status = "running"
    /\ pc = "main"
    /\ status' = how
    /\ path' = NoPath
    /\ lines' = <<>>
    /\ calls' = <<>>
    /\ curr_shader' = <<>>
    /\ shader_type' = None
    /\ line_mapping' = <<>>
    /\ version' = None
    /\ result' = NoResult
    /\ UNCHANGED <<args, pc, fileNo, log, output_dir>>

\* the glob is exhausted: main returns Ok(())
GlobDone == MainReturns("Ok")

\* "let path = path?": the glob yields an error and main returns it
GlobFails == fileNo < GlobBound /\ MainReturns("GlobError")

\* no file extension was found: a warning, and the next iteration
IgnoreFile(p) ==
    /\ Yield(p)
    /\ ~HasExtension(p)
    /\ result' = Result("Ignored", <<>>)
    /\ log' = Append(log, result')
    /\ UNCHANGED <<status, pc, output_dir>>

\* not the .glsl extension: a warning, and the next iteration
SkipFile(p) ==
    /\ Yield(p)
    /\ HasExtension(p)
    /\ Rejected(p)
    /\ result' = Result("Skipped", <<>>)
    /\ log' = Append(log, result')
    /\ UNCHANGED <<status, pc, output_dir>>

\* options.clone() yields None: main returns CompileOptionsError
CloneFails(p) ==
    /\ Yield(p)
    /\ HasExtension(p)
    /\ ~Rejected(p)
    /\ status' = "CompileOptionsError"
    /\ result' = NoResult
    /\ UNCHANGED <<pc, log, output_dir>>

\* parse is called and File::open fails: no line is read, no stage is open
OpenFails(p) ==
    /\ Yield(p)
    /\ HasExtension(p)
    /\ ~Rejected(p)
    /\ result' = OkResult
    /\ UNCHANGED <<status, pc, log, output_dir>>

\* parse is called and opens the file
OpenFile(p) ==
    /\ Yield(p)
    /\ HasExtension(p)
    /\ ~Rejected(p)
    /\ pc' = "parse"
    /\ result' = NoResult
    /\ UNCHANGED <<status, log, output_dir>>

\* ------------------------------------------------------------------ parse
\* the reader yields the next line of the file, which has index idx
ReadLine(line) ==
    /\ status = "running"
    /\ pc = "parse"
    /\ Len(lines) < LineBound
    /\ lines' = Append(lines, line)
    /\ UNCHANGED <<args, fileNo, path>>

idx == Len(lines)

IsTypeDirective(line) ==
    /\ ContainsSentinel(line)
    /\ IsSome(Get(line, 1))
    /\ ContainsWord(Unwrap(Get(line, 1)), "TYPE")
    /\ IsSome(Get(line, 2))

IsVersionDirective(line) ==
    /\ ContainsSentinel(line)
    /\ IsSome(Get(line, 1))
    /\ ~ContainsWord(Unwrap(Get(line, 1)), "TYPE")
    /\ ContainsWord(Unwrap(Get(line, 1)), "VERSION")
    /\ Len(line) >= 3

\* a call of compile_shader as the history keeps it
Call(kind, answer) ==
    [curr_shader |-> curr_shader, kind |-> kind, line_mapping |-> line_mapping,
     version |-> version, answer |-> answer]

\* mutant: main propagates the error of parse ("parse(..)?") and returns
Return_Propagates(r) ==
    /\ pc' = "main"
    /\ result' = r
    /\ log' = IF r.tag = "Ok" THEN log ELSE Append(log, r)
    /\ status' = IF r.tag = "Ok" THEN status ELSE "CompilerError"

\* "if let Err(err) = parse(..) { error!(..) }": parse returns r to main
Return(r) ==
    /\ pc' = "main"
    /\ result' = r
    /\ log' = IF r.tag = "Ok" THEN log ELSE Append(log, r)
    /\ status' = status

\* "compile_shader(...)?": the call; parse returns when it fails, else goes on
Flush(answer, last) ==
    LET c == compile_shader(curr_shader, path, Unwrap(shader_type), line_mapping,
                            output_dir, version, answer)
    IN  /\ calls' = Append(calls, Call(Unwrap(shader_type), answer))
        /\ output_dir' = c.dir
        /\ IF c.panic
           THEN status' = "panic" /\ UNCHANGED <<pc, result, log>>
           ELSE IF c.ret.tag = "Ok" /\ ~last
                THEN UNCHANGED <<status, pc, result, log>>
                ELSE Return(c.ret)

\* a TYPE directive with a keyword parse_shader_kind does not know
UnknownType(line) ==
    /\ ReadLine(line)
    /\ IsTypeDirective(line)
    /\ ~IsSome(parse_shader_kind(Unwrap(Get(line, 2))))
    /\ Return(Result("UnknownShaderType", <<Unwrap(Get(line, 2))>>))
    /\ UNCHANGED <<parseLocals, calls, output_dir>>

\* mutant: the first stage marker discards what was accumulated before it
FirstStage_Reset(line) ==
    /\ ReadLine(line)
    /\ IsTypeDirective(line)
    /\ IsSome(parse_shader_kind(Unwrap(Get(line, 2))))
    /\ ~IsSome(shader_type)
    /\ shader_type' = parse_shader_kind(Unwrap(Get(line, 2)))
    /\ curr_shader' = <<>>
    /\ line_mapping' = <<>>
    /\ UNCHANGED <<status, pc, version, calls, result, log, output_dir>>

\* a stage marker while no stage is open
FirstStage(line) ==
    /\ ReadLine(line)
    /\ IsTypeDirective(line)
    /\ IsSome(parse_shader_kind(Unwrap(Get(line, 2))))
    /\ ~IsSome(shader_type)
    /\ shader_type' = parse_shader_kind(Unwrap(Get(line, 2)))
    /\ UNCHANGED <<status, pc, curr_shader, line_mapping, version, calls, result, log,
                   output_dir>>

\* mutant: the flush clears the version with the accumulator
NextStage_ResetVersion(line, answer) ==
    /\ ReadLine(line)
    /\ IsTypeDirective(line)
    /\ IsSome(parse_shader_kind(Unwrap(Get(line, 2))))
    /\ IsSome(shader_type)
    /\ Flush(answer, FALSE)
    /\ IF answer.ok
       THEN /\ curr_shader' = <<>>
            /\ line_mapping' = <<>>
            /\ version' = None
            /\ shader_type' = parse_shader_kind(Unwrap(Get(line, 2)))
       ELSE UNCHANGED <<curr_shader, line_mapping, version, shader_type>>

\* mutant: a stage marker switches the stage without compiling the open unit
NextStage_NoFlush(line, answer) ==
    /\ ReadLine(line)
    /\ IsTypeDirective(line)
    /\ IsSome(parse_shader_kind(Unwrap(Get(line, 2))))
    /\ IsSome(shader_type)
    /\ answer.ok
    /\ shader_type' = parse_shader_kind(Unwrap(Get(line, 2)))
    /\ UNCHANGED <<status, pc, curr_shader, line_mapping, version, calls, result, log,
                   output_dir>>

\* mutant: the flush leaves the accumulator and the line map as they are
NextStage_KeepAccumulator(line, answer) ==
    /\ ReadLine(line)
    /\ IsTypeDirective(line)
    /\ IsSome(parse_shader_kind(Unwrap(Get(line, 2))))
    /\ IsSome(shader_type)
    /\ Flush(answer, FALSE)
    /\ IF answer.ok
       THEN shader_type' = parse_shader_kind(Unwrap(Get(line, 2)))
       ELSE UNCHANGED shader_type
    /\ UNCHANGED <<curr_shader, line_mapping, version>>

\* a stage marker while a stage is open: the open unit is compiled
NextStage(line, answer) ==
    /\ ReadLine(line)
    /\ IsTypeDirective(line)
    /\ IsSome(parse_shader_kind(Unwrap(Get(line, 2))))
    /\ IsSome(shader_type)
    /\ Flush(answer, FALSE)
    /\ IF answer.ok
       THEN /\ curr_shader' = <<>>
            /\ line_mapping' = <<>>
            /\ shader_type' = parse_shader_kind(Unwrap(Get(line, 2)))
       ELSE UNCHANGED <<curr_shader, line_mapping, shader_type>>
    /\ UNCHANGED version

\* mutant: a VERSION directive does not overwrite a version already set
VersionDirective_KeepFirst(line) ==
    /\ ReadLine(line)
    /\ IsVersionDirective(line)
    /\ version' = IF IsSome(version) THEN version ELSE Some(line[3])
    /\ UNCHANGED <<status, pc, curr_shader, shader_type, line_mapping, calls, result, log,
                   output_dir>>

\* a VERSION directive with its token
VersionDirective(line) ==
    /\ ReadLine(line)
    /\ IsVersionDirective(line)
    /\ version' = Some(line[3])
    /\ UNCHANGED <<status, pc, curr_shader, shader_type, line_mapping, calls, result, log,
                   output_dir>>

\* any other line that holds the sentinel
OtherDirective(line) ==
    /\ ReadLine(line)
    /\ ContainsSentinel(line)
    /\ ~IsTypeDirective(line)
    /\ ~IsVersionDirective(line)
    /\ UNCHANGED <<status, pc, parseLocals, calls, result, log, output_dir>>

\* mutant: empty lines and comments are ignored while curr_shader is empty, too
FirstLine_Filtered(line) ==
    /\ ReadLine(line)
    /\ ~ContainsSentinel(line)
    /\ Len(curr_shader) = 0
    /\ curr_shader' = IF ~IsEmptyLine(line) /\ ~StartsWithSlashes(line)
                      THEN LineText(line, idx) ELSE curr_shader
    /\ UNCHANGED <<status, pc, shader_type, line_mapping, version, calls, result, log,
                   output_dir>>

\* a line without the sentinel while curr_shader is empty
FirstLine(line) ==
    /\ ReadLine(line)
    /\ ~ContainsSentinel(line)
    /\ Len(curr_shader) = 0
    /\ curr_shader' = LineText(line, idx)
    /\ UNCHANGED <<status, pc, shader_type, line_mapping, version, calls, result, log,
                   output_dir>>

\* mutant: only empty lines are ignored, comments are appended
Kept_Comments(line) == ~IsEmptyLine(line)

\* !line.is_empty() && !line.starts_with("//")
Kept(line) == ~IsEmptyLine(line) /\ ~StartsWithSlashes(line)

AppendLine(line) ==
    /\ ReadLine(line)
    /\ ~ContainsSentinel(line)
    /\ Len(curr_shader) # 0
    /\ Kept(line)
    /\ curr_shader' = JoinNL(curr_shader, LineText(line, idx))
    /\ line_mapping' = Append(line_mapping, idx)
    /\ UNCHANGED <<status, pc, shader_type, version, calls, result, log, output_dir>>

\* "ignore empty lines and comments"
DropLine(line) ==
    /\ ReadLine(line)
    /\ ~ContainsSentinel(line)
    /\ Len(curr_shader) # 0
    /\ ~Kept(line)
    /\ UNCHANGED <<status, pc, parseLocals, calls, result, log, output_dir>>

\* end of file while no stage is open: parse returns Ok(())
EndNoStage ==
    /\ status = "running"
    /\ pc = "parse"
    /\ ~IsSome(shader_type)
    /\ Return(OkResult)
    /\ UNCHANGED <<args, fileNo, path, lines, parseLocals, calls, output_dir>>

\* end of file while a stage is open: "compile last shader"
EndFlush(answer) ==
    /\ status = "running"
    /\ pc = "parse"
    /\ IsSome(shader_type)
    /\ Flush(answer, TRUE)
    /\ UNCHANGED <<args, fileNo, path, lines, parseLocals>>

Answers == BackendAnswers(BackendSource(curr_shader, version))

Next ==
    \/ GlobDone
    \/ GlobFails
    \/ \E p \in DiskPaths : IgnoreFile(p)
    \/ \E p \in DiskPaths : SkipFile(p)
    \/ \E p \in DiskPaths : CloneFails(p)
    \/ \E p \in DiskPaths : OpenFails(p)
    \/ \E p \in DiskPaths : OpenFile(p)
    \/ \E line \in FileLines : UnknownType(line)
    \/ \E line \in FileLines : FirstStage(line)
    \/ \E line \in FileLines : \E answer \in Answers : NextStage(line, answer)
    \/ \E line \in FileLines : VersionDirective(line)
    \/ \E line \in FileLines : OtherDirective(line)
    \/ \E line \in FileLines : FirstLine(line)
    \/ \E line \in FileLines : AppendLine(line)
    \/ \E line \in FileLines : DropLine(line)
    \/ EndNoStage
    \/ \E answer \in Answers : EndFlush(answer)

Spec == Init /\ [][Next]_vars

TypeOK ==
    /\ status \in {"running", "Ok", "GlobError", "CompileOptionsError", "panic"}
    /\ pc \in {"main", "parse"}
    /\ fileNo \in 0..MaxFiles
    /\ Len(lines) <= MaxLines

\* ----------------------------------------------------- reading the history
LastCall == calls[Len(calls)]

\* parse has returned to main for the current file
Returned == pc = "main" /\ result.tag \in {"Ok", "Compilation", "UnknownShaderType"}

ErrTags == {"Compilation", "UnknownShaderType"}

IsStageMarker(line) ==
    IsTypeDirective(line) /\ IsSome(parse_shader_kind(Unwrap(Get(line, 2))))

\* the positions (1-based) of the stage markers among the lines read
Markers == {i \in 1..Len(lines) : IsStageMarker(lines[i])}

\* the directive lines read, in file order
Directives == SelectSeq(lines, ContainsSentinel)

\* the file line indexes (0-based) whose text is on line n of a text
OriginsOfLine(s, n) == {s[p].idx : p \in {q \in PiecesOnLine(s, n) : s[q].idx >= 0}}

\* the file line indexes (0-based) whose text is in a text
Origins(s) == {s[p].idx : p \in {q \in 1..Len(s) : ~s[q].nl /\ s[q].idx >= 0}}

CallSource(c) == BackendSource(c.curr_shader, c.version)

\* the stage markers read, in file order
MarkerLines == SelectSeq(lines, IsStageMarker)

\* the position (1-based) of the first stage marker; past the end when none
FirstMarker ==
    IF Markers = {} THEN Len(lines) + 1
    ELSE CHOOSE i \in Markers : \A j \in Markers : i <= j

\* the positions of the non-blank, non-comment source lines before the first marker
EarlyKeptLines ==
    {i \in 1..Len(lines) :
        i < FirstMarker /\ ~ContainsSentinel(lines[i]) /\ Kept(lines[i])}

\* the token of the last VERSION directive read, if any
LastVersion ==
    LET vs == SelectSeq(lines, IsVersionDirective)
    IN  IF Len(vs) = 0 THEN None ELSE Some(vs[Len(vs)][3])

Range(f) == {f[i] : i \in 1..Len(f)}

OverrideDirectives(A, B) ==
    <<VersionLine(A), TypeLine("VERTEX"), VersionLine(B), TypeLine("FRAGMENT")>>

\* the call compiles a unit of this kind with this version: the text handed to
\* the backend starts with the line "#version v"
CompiledWith(c, kind, v) ==
    /\ c.kind = kind
    /\ c.version = Some(v)
    /\ Len(CallSource(c)) >= 2
    /\ CallSource(c)[1].text = <<"#version", v>>
    /\ CallSource(c)[2].nl

\* "<stem>-<ext>.spv" with ext = vert, frag, geo
SpvName(stem, kind) ==
    <<stem, "-",
      CASE kind = "Vertex" -> "vert" [] kind = "Fragment" -> "frag"
        [] kind = "Geometry" -> "geo",
      ".spv">>

\* the files the units of the current file are to be found in
UnitArtifacts == {SpvName(path.stem, calls[k].kind) : k \in 1..Len(calls)}

\* ------------------------------------------------------------------ claims

\* C1: a backend diagnostic citing line N of the source text, where line N comes
\* from the file, is rewritten by compile_shader to cite the 1-based number that
\* line has in the file.
C1_DiagnosticCitesOriginalLine ==
    (Len(calls) > 0 /\ ~LastCall.answer.ok) =>
        \A n \in 1..NumLines(CallSource(LastCall)) :
            \A i \in OriginsOfLine(CallSource(LastCall), n) :
                LastCall.answer.err = Diag1(n) =>
                    /\ status = "running"
                    /\ result = Result("Compilation", Diag1(i + 1))

\* C2: when the backend returns a diagnostic for one unit of a file, every unit the
\* file's stage markers opened is still compiled by the time parse returns.
C2_FailingUnitDoesNotStopFile ==
    (status = "running" /\ Returned /\ result.tag = "Compilation") =>
        Len(calls) = Cardinality(Markers)

\* C3: an error parse returns for a file (UnknownShaderType, Compilation) does not
\* abort the batch: main logs it and is at the head of its loop, still running,
\* where every path the glob yields next is taken up and, when the glob is
\* exhausted, the run ends with Ok.
C3_ErrorDoesNotAbortBatch ==
    result.tag \in ErrTags =>
        /\ status = "running"
        /\ pc = "main"
        /\ Len(log) > 0 /\ log[Len(log)] = result
        /\ ENABLED (GlobDone /\ status' = "Ok")
        /\ fileNo < GlobBound =>
               \A p \in DiskPaths :
                   Matches(p, glob) =>
                       ENABLED (IgnoreFile(p) \/ SkipFile(p) \/ OpenFile(p))

\* C3 witness: the first file of a batch failed, the second was parsed and its
\* unit compiled.
C3_Witness ==
    /\ fileNo = 2
    /\ Len(log) > 0 /\ log[1].tag \in ErrTags
    /\ Returned /\ result.tag = "Ok"
    /\ Len(calls) = 1

\* C4: when a file holds a TYPE directive with an unknown keyword, parse fails
\* with UnknownShaderType(token) and no unit of the file was compiled.
C4_UnknownTypeCompilesNothing ==
    (Len(lines) > 0 /\ IsTypeDirective(lines[Len(lines)])
                    /\ ~IsStageMarker(lines[Len(lines)])) =>
        /\ result = Result("UnknownShaderType", <<lines[Len(lines)][3]>>)
        /\ calls = <<>>

\* C5 as the spec states it: with the directives VERSION A, TYPE VERTEX, VERSION B,
\* TYPE FRAGMENT (A # B) the Vertex unit is compiled with version A and the
\* Fragment unit with version B.
C5_FirstUnitKeepsVersionA ==
    \A A \in VersionTokens : \A B \in VersionTokens \ {A} :
        Directives = OverrideDirectives(A, B) =>
            /\ Len(calls) >= 1 => CompiledWith(calls[1], "Vertex", A)
            /\ Len(calls) >= 2 => CompiledWith(calls[2], "Fragment", B)

\* C5 amended: with these directives both units are compiled with version B, the
\* version in force when the TYPE FRAGMENT marker flushes the Vertex unit.
C5_BothUnitsGetVersionB ==
    \A A \in VersionTokens : \A B \in VersionTokens \ {A} :
        Directives = OverrideDirectives(A, B) =>
            /\ Len(calls) >= 1 => CompiledWith(calls[1], "Vertex", B)
            /\ Len(calls) >= 2 => CompiledWith(calls[2], "Fragment", B)

\* C5 witness: a file with these directives whose two units were both compiled.
C5_Witness ==
    /\ \E A \in VersionTokens : \E B \in VersionTokens \ {A} :
           Directives = OverrideDirectives(A, B)
    /\ Len(calls) = 2

\* C6: only a VERSION directive changes the current version, a stage marker and
\* its flush leave it as it is: the version is the one of the last VERSION
\* directive read; with VERSION A, TYPE VERTEX, TYPE FRAGMENT both units are
\* compiled with version A.
C6_StageMarkerKeepsVersion ==
    /\ version = LastVersion
    /\ \A A \in VersionTokens :
           Directives = <<VersionLine(A), TypeLine("VERTEX"), TypeLine("FRAGMENT")>> =>
               /\ Len(calls) >= 1 => CompiledWith(calls[1], "Vertex", A)
               /\ Len(calls) >= 2 => CompiledWith(calls[2], "Fragment", A)

\* C6 witness: VERSION A, TYPE VERTEX, TYPE FRAGMENT with both units compiled.
C6_Witness ==
    /\ \E A \in VersionTokens :
           Directives = <<VersionLine(A), TypeLine("VERTEX"), TypeLine("FRAGMENT")>>
    /\ Len(calls) = 2

\* C7 as the spec states it: a source line before the first stage marker is in
\* the source text and the line map of no unit handed to compile_shader.
C7_EarlyLinesInNoUnit ==
    \A k \in 1..Len(calls) :
        \A i \in Origins(calls[k].curr_shader) \cup Range(calls[k].line_mapping) :
            i + 1 > FirstMarker

\* C7 amended: a non-blank, non-comment source line before the first stage marker
\* is in the source text of the first unit handed to compile_shader, and in the
\* source text and line map of no later unit.
C7_EarlyLinesInFirstUnit ==
    \A i \in EarlyKeptLines :
        /\ Len(calls) >= 1 => (i - 1) \in Origins(calls[1].curr_shader)
        /\ \A k \in 2..Len(calls) :
               (i - 1) \notin Origins(calls[k].curr_shader) \cup Range(calls[k].line_mapping)

\* C7 witness: a file with a source line before its first stage marker, two units
\* of which were compiled.
C7_Witness == EarlyKeptLines # {} /\ Len(calls) = 2

\* C8: when parse returns Ok, a file without stage markers has produced no unit,
\* and a file with N >= 1 stage markers has produced N or N - 1 units, the k-th
\* unit being of the kind of the k-th stage marker.
C8_UnitCount ==
    (Returned /\ result.tag = "Ok") =>
        LET N == Cardinality(Markers)
        IN  /\ N = 0 => Len(calls) = 0
            /\ N >= 1 => Len(calls) \in {N - 1, N}
            /\ \A k \in 1..Len(calls) :
                   /\ k <= N
                   /\ Some(calls[k].kind) = parse_shader_kind(MarkerLines[k][3])

\* C8 witness: a file with three stage markers, parsed with every compile
\* succeeding.
C8_Witness == Returned /\ result.tag = "Ok" /\ Cardinality(Markers) = 3

\* C9: for every unit handed to compile_shader, the length of line_map is the
\* number of newline characters of source_text plus one: one entry for every
\* line of source_text (stated for the units whose source_text is not empty, all
\* of whose lines are file lines).
C9_LineMapHasEntryPerLine ==
    \A k \in 1..Len(calls) :
        Len(calls[k].curr_shader) > 0 =>
            Len(calls[k].line_mapping) = Newlines(calls[k].curr_shader) + 1

\* C10 as the spec states it: after a file whose units all compiled, the output
\* directory holds one file per unit, named <stem>-<ext>.spv.
C10_OneArtifactPerUnit ==
    (Returned /\ result.tag = "Ok") =>
        /\ UnitArtifacts \subseteq output_dir
        /\ Cardinality(UnitArtifacts) = Len(calls)

\* C10 amended: after a file whose units all compiled, the output directory holds
\* for every unit the file <stem>-<ext>.spv, which is one file per stage kind
\* among the units (a later unit of a kind overwrites the earlier one); after the
\* first file of a run it holds nothing else.
C10_OneArtifactPerKind ==
    (Returned /\ result.tag = "Ok") =>
        /\ UnitArtifacts \subseteq output_dir
        /\ Cardinality(UnitArtifacts) = Cardinality({calls[k].kind : k \in 1..Len(calls)})
        /\ fileNo = 1 => output_dir = UnitArtifacts

\* C10 witness: a file with three units of two kinds, one of them Geometry, all
\* compiled.
C10_Witness ==
    /\ Returned /\ result.tag = "Ok"
    /\ Len(calls) = 3
    /\ {calls[k].kind : k \in 1..Len(calls)} = {"Vertex", "Geometry"}

\* the file of the current loop iteration has the .glsl extension, in any case
HasGlslExtension(p) == HasExtension(p) /\ ToAsciiLowercase(Unwrap(p.ext)) = "glsl"

\* main has skipped the current file with a warning: parse was not called
FileSkipped == result.tag \in {"Ignored", "Skipped"}

\* C11: a matched file is skipped (a warning, parse is not called, no artifact)
\* exactly when it lacks the glsl extension, compared case-insensitively, and
\* ignore_extension is not set; with ignore_extension set every matched file is
\* handed to parse, a file without any extension included.
C11_SkippedIffNoGlslAndNoFlag ==
    (path # NoPath /\ status # "CompileOptionsError") =>
        /\ FileSkipped <=> (~HasGlslExtension(path) /\ ~ignore_extension)
        /\ FileSkipped => (pc = "main" /\ calls = <<>>)
        /\ ~FileSkipped => (pc = "parse" \/ result.tag \in {"Ok"} \cup ErrTags)

\* C12: for a unit compiled with a version (the text handed to the backend starts
\* with the "#version" line), a diagnostic citing line N > 1 of that text is
\* rewritten to cite line_map[N-2] (0-based), and a diagnostic citing line 1, the
\* "#version" line, is returned as a Compilation error that was not rewritten to
\* an entry of line_map.
C12_VersionShiftsLookup ==
    (Len(calls) > 0 /\ ~LastCall.answer.ok /\ IsSome(LastCall.version)) =>
        LET lm == LastCall.line_mapping
        IN  /\ \A N \in 2..(Len(lm) + 1) :
                   LastCall.answer.err = Diag1(N) =>
                       /\ status = "running"
                       /\ result = Result("Compilation", Diag1(lm[N - 1]))
            /\ LastCall.answer.err = Diag1(1) =>
                   /\ status = "running"
                   /\ result.tag = "Compilation"
                   /\ (Len(lm) >= 1 /\ lm[1] # 1) => result.msg # Diag1(lm[1])

\* ------------------------------------------- compile_shader on its own
\* the line maps compile_shader may be handed: increasing file line indexes
LineMaps ==
    {lm \in UNION {[1..n -> 0..MaxIndex] : n \in 0..MaxMapLen} :
        \A i \in 1..(Len(lm) - 1) : lm[i] < lm[i + 1]}

\* what the backend may answer when nothing is known of the source text
AnyDiagnostics ==
    {Diag1(n) : n \in 0..(MaxMapLen + 1)} \cup {Diag2(1, 1), Diag2(1, 2), DiagNoRef}

AnyAnswers == {BackendOk} \cup {BackendErr(e) : e \in AnyDiagnostics}

\* compile_shader is about to be called with some line map and version
InitCompile ==
    /\ glob = LiteralGlob
    /\ ignore_extension = FALSE
    /\ status = "running"
    /\ pc = "compile_shader"
    /\ fileNo = 1
    /\ path = Path("a", Some("glsl"))
    /\ lines = <<>>
    /\ curr_shader = LineText(CodeLine, 0)
    /\ shader_type = Some("Vertex")
    /\ line_mapping \in LineMaps
    /\ version \in {None} \cup {Some(v) : v \in VersionTokens}
    /\ calls = <<>>
    /\ result = NoResult
    /\ log = <<>>
    /\ output_dir = {}

\* the call of compile_shader and what it returns
CompileShaderCall(answer) ==
    LET c == compile_shader(curr_shader, path, Unwrap(shader_type), line_mapping,
                            output_dir, version, answer)
    IN  /\ status = "running"
        /\ pc = "compile_shader"
        /\ calls' = Append(calls, Call(Unwrap(shader_type), answer))
        /\ output_dir' = c.dir
        /\ pc' = "returned"
        /\ IF c.panic
           THEN status' = "panic" /\ result' = result
           ELSE status' = status /\ result' = c.ret
        /\ UNCHANGED <<args, fileNo, path, lines, parseLocals, log>>

NextCompile == \E answer \in AnyAnswers : CompileShaderCall(answer)

SpecCompile == InitCompile /\ [][NextCompile]_vars

\* C13: when no version is prepended, for any line map and any diagnostic whose
\* line reference N has 1 <= N <= Len(line_map), compile_shader returns a
\* Compilation error in which the line reference is line_map[N-1] (0-based): the
\* diagnostic "f:N:e" comes back as "f:<line_map[N-1]>:e".
C13_RewritesToMapEntry ==
    (Len(calls) > 0 /\ ~LastCall.answer.ok /\ ~IsSome(LastCall.version)) =>
        LET lm == LastCall.line_mapping
            e == LastCall.answer.err
        IN  \A N \in 1..Len(lm) :
                /\ RegCapture(e) = Some(Dec(N)) =>
                       /\ status = "running"
                       /\ result.tag = "Compilation"
                       /\ RegCapture(result.msg) = Some(Dec(lm[N]))
                /\ e = Diag1(N) => result.msg = Diag1(lm[N])

\* C13 witness: line_map = [5, 7, 8], no version, and the diagnostic citing line 2
\* came back citing 7.
C13_Witness ==
    /\ Len(calls) = 1
    /\ LastCall.line_mapping = <<5, 7, 8>>
    /\ ~IsSome(LastCall.version)
    /\ LastCall.answer = BackendErr(Diag1(2))
    /\ result = Result("Compilation", Diag1(7))

\* the translation of the diagnostic of a call fails: no line reference is found
\* in it, or the line it cites has no entry in the line map
TranslationFails(c) == ~c.answer.ok /\ ErrorTranslation(c.answer.err, c.line_mapping).panic

\* C14: when the line translation of a unit's diagnostic fails, the processing of
\* that file ends and nothing else: the process keeps running with main at the
\* head of its loop, what parse returned for the file is an error other than a
\* Compilation error and is logged, every path the glob yields next is taken up,
\* and the run ends with Ok when the glob is exhausted.
C14_TranslationFailureAbortsFileOnly ==
    (Len(calls) > 0 /\ TranslationFails(LastCall)) =>
        /\ status = "running"
        /\ pc = "main"
        /\ result.tag \notin {"none", "Ok", "Compilation"}
        /\ Len(log) > 0 /\ log[Len(log)] = result
        /\ ENABLED (GlobDone /\ status' = "Ok")
        /\ fileNo < GlobBound =>
               \A p \in DiskPaths :
                   Matches(p, glob) =>
                       ENABLED (IgnoreFile(p) \/ SkipFile(p) \/ OpenFile(p))

\* C15: when File::open fails for a matched file, parse returns the FileRead
\* error for it, main logs that error, no unit of the file is compiled, and main
\* stays running at the head of its loop.
C15_OpenFailureIsReported ==
    [][\A p \in DiskPaths :
           OpenFails(p) =>
               /\ result'.tag = "FileRead"
               /\ log' = Append(log, result')
               /\ calls' = <<>>
               /\ status' = "running" /\ pc' = "main"]_vars

\* the file line indexes of the pieces of a text, in the order of the text
RECURSIVE PieceIndexes(_)
PieceIndexes(s) ==
    IF Len(s) = 0 THEN <<>>
    ELSE IF s[1].nl THEN PieceIndexes(Tail(s))
    ELSE <<s[1].idx>> \o PieceIndexes(Tail(s))

StrictlyIncreasing(f) == \A i \in 1..(Len(f) - 1) : f[i] < f[i + 1]

\* parse reads this line, which holds no sentinel, while curr_shader is not empty
ReadsWhileAccumulating(line) ==
    /\ status = "running"
    /\ pc = "parse"
    /\ lines' = Append(lines, line)
    /\ ~ContainsSentinel(line)
    /\ Len(curr_shader) # 0

\* C16: while curr_shader is not empty, a line without the sentinel that is not
\* empty and does not start with "//" is appended to curr_shader after a newline
\* and its 0-based index is pushed onto line_mapping; an empty line or a line that
\* starts with "//" changes neither.  Hence the lines of curr_shader are in file
\* order and line_mapping is strictly increasing.
C16_AppendsAndPushesIffKept ==
    /\ [][\A line \in FileLines :
              ReadsWhileAccumulating(line) =>
                  IF line # <<"">> /\ line[1] # "//"
                  THEN /\ curr_shader' = curr_shader \o
                              <<NL, [nl |-> FALSE, text |-> line, idx |-> Len(lines)]>>
                       /\ line_mapping' = Append(line_mapping, Len(lines))
                  ELSE UNCHANGED <<curr_shader, line_mapping>>]_vars
    /\ [](StrictlyIncreasing(PieceIndexes(curr_shader)) /\ StrictlyIncreasing(line_mapping))

\* C16 witness: after the first line of a unit a code line, a blank or comment
\* line and a code line were read: the two code lines were appended and pushed.
C16_Witness ==
    /\ Len(lines) = 4
    /\ ~ContainsSentinel(lines[1])
    /\ lines[2] = CodeLine
    /\ lines[3] \in {BlankLine, CommentLine}
    /\ lines[4] = CodeLine
    /\ line_mapping = <<1, 3>>
    /\ PieceIndexes(curr_shader) = <<0, 1, 3>>

\* the position (1-based) of the line at which curr_shader was last reset: the
\* last stage marker when it closed a unit, else 0
AccStart ==
    IF Cardinality(Markers) >= 2
    THEN CHOOSE i \in Markers : \A j \in Markers : j <= i
    ELSE 0

\* the positions of the lines without sentinel read since curr_shader was reset
AccLines == {i \in (AccStart + 1)..Len(lines) : ~ContainsSentinel(lines[i])}

\* those of them that are not empty
AccTextLines == {i \in AccLines : ~IsEmptyLine(lines[i])}

Least(S) == CHOOSE i \in S : \A j \in S : i <= j

\* the lines after position f that the filter of empty lines and comments keeps
KeptAfter(f) == {g \in AccLines : g > f /\ lines[g] # <<"">> /\ lines[g][1] # "//"}

\* C17 as the spec states it: the first line without sentinel read while
\* curr_shader is empty is line 1 of curr_shader whatever it is, an empty line
\* included (line 1 is then empty), and the lines after it follow it in
\* curr_shader, one line each, exactly when they are not empty and do not start
\* with "//".
C17_FirstLineIsLineOne ==
    (status = "running" /\ pc = "parse" /\ AccLines # {}) =>
        LET f == Least(AccLines)
        IN  /\ OriginsOfLine(curr_shader, 1) =
                   (IF IsEmptyLine(lines[f]) THEN {} ELSE {f - 1})
            /\ Origins(curr_shader) \ {f - 1} = {g - 1 : g \in KeptAfter(f)}
            /\ NumLines(curr_shader) = 1 + Cardinality(KeptAfter(f))

\* C17 amended: an empty line read while curr_shader is empty leaves it empty;
\* the first line without sentinel that is not empty is line 1 of curr_shader
\* whatever it is, a "//" comment included, and the lines after it follow it in
\* curr_shader, one line each, exactly when they are not empty and do not start
\* with "//".
C17_FirstTextLineIsLineOne ==
    (status = "running" /\ pc = "parse") =>
        IF AccTextLines = {} THEN curr_shader = <<>>
        ELSE LET f == Least(AccTextLines)
             IN  /\ OriginsOfLine(curr_shader, 1) = {f - 1}
                 /\ Origins(curr_shader) \ {f - 1} = {g - 1 : g \in KeptAfter(f)}
                 /\ NumLines(curr_shader) = 1 + Cardinality(KeptAfter(f))

\* C17 witness: an empty line, two comments and a code line: the first comment is
\* line 1 of curr_shader, the second is dropped, the code line is line 2.
C17_Witness ==
    /\ status = "running" /\ pc = "parse"
    /\ lines = <<BlankLine, CommentLine, CommentLine, CodeLine>>
    /\ PieceIndexes(curr_shader) = <<1, 3>>
    /\ NumLines(curr_shader) = 2

\* the position (1-based) of the k-th stage marker read
MarkerPos(k) == CHOOSE i \in Markers : Cardinality({j \in Markers : j <= i}) = k

\* the position at which the unit the k-th stage marker opened ends: the next
\* stage marker, or past the last line read
UnitEnd(k) == IF k < Cardinality(Markers) THEN MarkerPos(k + 1) ELSE Len(lines) + 1

\* the file line indexes (0-based) in the source text and the line map of a call
UnitIndexes(c) == Origins(c.curr_shader) \cup Range(c.line_mapping)

\* C18: units do not share content.  Right after a stage marker closed a unit,
\* curr_shader and line_mapping are empty; the source text and line map of every
\* unit after the first hold only lines between the stage marker that opened the
\* unit and the next stage marker (or the end of the file); no file line index is
\* in the source text or line map of two units.
C18_UnitsShareNoLine ==
    /\ (status = "running" /\ pc = "parse" /\ Cardinality(Markers) >= 2
            /\ IsStageMarker(lines[Len(lines)])) =>
           (curr_shader = <<>> /\ line_mapping = <<>>)
    /\ \A k \in 2..Len(calls) :
           \A i \in UnitIndexes(calls[k]) :
               MarkerPos(k) < i + 1 /\ i + 1 < UnitEnd(k)
    /\ \A j \in 1..Len(calls) : \A k \in 1..Len(calls) :
           j # k => UnitIndexes(calls[j]) \cap UnitIndexes(calls[k]) = {}

\* C18 witness: two units of a file were compiled, each with a line of its own.
C18_Witness ==
    /\ Len(calls) = 2
    /\ UnitIndexes(calls[1]) # {}
    /\ UnitIndexes(calls[2]) # {}

\* C19: for every unit parse hands to compile_shader and every diagnostic that
\* cites a line N of the source text given to the backend (1 <= N <= its number
\* of lines, the last line included), the lookup in line_mapping is in range:
\* compile_shader returns a Compilation error and does not panic (stated for
\* the units whose source_text is not empty).
C19_TranslationTotalOnSourceLines ==
    (Len(calls) > 0 /\ ~LastCall.answer.ok /\ Len(LastCall.curr_shader) > 0) =>
        \A N \in 1..NumLines(CallSource(LastCall)) :
            LastCall.answer.err = Diag1(N) =>
                /\ ~TranslationFails(LastCall)
                /\ status = "running"
                /\ result.tag = "Compilation"

\* where the leftmost match of REG in a diagnostic starts and ends
FirstRef(err) ==
    LET i == CHOOSE a \in 1..Len(err) :
                 /\ \E j \in 1..Len(err) : RegMatch(err, a, j)
                 /\ \A b \in 1..(a - 1) : \A j \in 1..Len(err) : ~RegMatch(err, b, j)
    IN  [from |-> i, to |-> CHOOSE j \in 1..Len(err) : RegMatch(err, i, j)]

\* C20: the Compilation error compile_shader returns is the backend's diagnostic
\* with its first ":<digits>:" replaced by a ":<digits>:" and nothing else
\* changed: the text before it and the whole text after it, any later
\* ":<digits>:" included, are those of the diagnostic.
C20_OnlyFirstReferenceRewritten ==
    (Len(calls) > 0 /\ ~LastCall.answer.ok /\ result.tag = "Compilation") =>
        LET e == LastCall.answer.err
            m == FirstRef(e)
            rest == Len(e) - m.to
            msg == result.msg
        IN  /\ Len(msg) >= m.from + 2 + rest
            /\ SubSeq(msg, 1, m.from - 1) = SubSeq(e, 1, m.from - 1)
            /\ RegMatch(msg, m.from, Len(msg) - rest)
            /\ SubSeq(msg, Len(msg) - rest + 1, Len(msg)) = SubSeq(e, m.to + 1, Len(e))

====
